---- MODULE Spec2Model ----
(***************************************************************************)
(* The render orchestrator of nova-renderer (nova_renderer.cpp), the      *)
(* shader program object (gl_shader_program.h) and the collaborators they *)
(* drive, as one single-threaded state machine.  `pc` is the position of  *)
(* the only thread: inside the constructor, inside one delivery of a      *)
(* configuration-change notification, inside render_frame, or idle        *)
(* between two calls made by the host application.                        *)
(***************************************************************************)
EXTENDS Integers, Sequences, FiniteSets, TLC

\* Bounds of the exploration.
MaxLoads == 2      \* shaderpack loads in one run (each allocates GPU handles)
MaxBucket == 2     \* renderables the mesh store returns for one filter

None == "none"

\* Names a configuration may carry in "loadedShaderpack".
PackNames == {"A", "B"}

\* The passes nova_renderer.cpp asks the shaderpack for by name.
PassNames == <<"gbuffers_terrain", "gbuffers_water", "gui">>

\* The material states on disk under each shaderpack name, as far as the
\* orchestrator reads them: material_state::name, ::filters and ::pass_index.
\* "A" keys every pass's geometry by the pass's own name; "B" names its
\* terrain geometry by another filter string and has a third gbuffers pass.
ShaderDefinitions(pack_name) ==
    IF pack_name = "A"
    THEN << [name |-> "gbuffers_terrain", filter |-> "gbuffers_terrain", pass_index |-> 0],
            [name |-> "gbuffers_water", filter |-> "gbuffers_water", pass_index |-> 1],
            [name |-> "final", filter |-> "final", pass_index |-> 2],
            [name |-> "gui", filter |-> "gui", pass_index |-> 3] >>
    ELSE << [name |-> "gbuffers_terrain", filter |-> "block", pass_index |-> 0],
            [name |-> "gbuffers_entities", filter |-> "entity", pass_index |-> 1],
            [name |-> "gbuffers_water", filter |-> "gbuffers_water", pass_index |-> 2],
            [name |-> "gui", filter |-> "gui", pass_index |-> 3] >>

\* The pass names with the gbuffers prefix.
GbufferPassNames == {"gbuffers_terrain", "gbuffers_water", "gbuffers_entities"}

\* The one uniform the orchestrator looks up (upload_model_matrix,
\* upload_gui_model_matrix).
UniformNames == {"gbufferModel"}

\* glGetUniformLocation's answer when it finds no such uniform.
NotFound == -1

\* The "settings" object of the configuration: two view/shadow sizes.
ViewSettings ==
    { [viewWidth |-> 640, viewHeight |-> 480, shadowMapResolution |-> 1024],
      [viewWidth |-> 800, viewHeight |-> 600, shadowMapResolution |-> 2048] }

Options ==
    { [loadedShaderpack |-> n, settings |-> s] : n \in PackNames, s \in ViewSettings }

\* render_object as render_shader and render_gui read it: the geometry's
\* has_data(), the colour texture name ("" = empty) and the two optional maps.
\* The renderables explored name no texture, a colour texture only, or all
\* three.
RenderObjects ==
    { r \in [has_data : BOOLEAN, color_texture : {"", "a"},
             normalmap : {None, "n"}, data_texture : {None, "d"}] :
        /\ (r.normalmap = None) <=> (r.data_texture = None)
        /\ r.color_texture = "" => r.normalmap = None }

\* What the texture manager may hold when frames are rendered: every texture
\* the renderables name and the lightmap, or neither the normal map nor the
\* lightmap.
TextureSets == { {"a", "n", "d", "lightmap"}, {"a", "d"} }

RECURSIVE SeqsUpTo(_, _)
SeqsUpTo(S, n) ==
    IF n = 0 THEN { <<>> }
    ELSE LET shorter == SeqsUpTo(S, n - 1)
         IN  shorter \cup { Append(s, x) : s \in { t \in shorter : Len(t) = n - 1 }, x \in S }

\* What mesh_store::get_meshes_for_shader may return for a key.
Buckets == SeqsUpTo(RenderObjects, MaxBucket)

IsPrefix(s, t) == Len(s) <= Len(t) /\ SubSeq(t, 1, Len(s)) = s

Range(s) == { s[i] : i \in DOMAIN s }

VARIABLES
    pc,                         \* position of the thread
    listeners,                  \* settings' change listeners, in registration order
    notify_idx,                 \* listener the current notification has reached
    delivered,                  \* notifications handed to listeners since the last one ended
    in_constructor,             \* the notification under way is the constructor's
    render_settings,            \* settings::get_options()
    texture_manager,            \* names of the textures nova_renderer::textures holds
    loaded_shaderpack,          \* nova_renderer::loaded_shaderpack
    main_framebuffer,           \* nova_renderer::main_framebuffer
    shadow_framebuffer,         \* nova_renderer::shadow_framebuffer
    main_framebuffer_builder,
    shadow_framebuffer_builder,
    gl_next_name,               \* next name glCreateProgram hands out
    gl_deleted,                 \* per program name: glDeleteProgram calls made on it
    gl_wired,                   \* program names whose uniform blocks were bound
    ubo_registrations,          \* register_all_buffers_with_shader calls since the last load
    gl_program,                 \* name given to the last glUseProgram
    gl_textures,                \* texture bound at binding points 0..3
    native_lookups,             \* per pass: glGetUniformLocation calls of the loaded program
    returned_locations,         \* per pass: values get_uniform_location has returned
    generation,                 \* shaderpack loads so far
    name_before,                \* loaded name when the current notification arrived
    reaction_log,               \* steps on_config_change has made for that notification
    frame_log,                  \* statements of the current render_frame call, in order
    bound_passes,               \* passes whose programs the current statement has bound
    pass_shader,                \* pass whose program render_shader / render_gui is drawing
    pass_key,                   \* key it gave to get_meshes_for_shader
    pass_start,                 \* texture bindings and program object the pass began with
    pass_geometry,              \* renderables of the returned bucket the loop has reached
    pass_trace                  \* GL calls of the current pass, in order

vars == << pc, listeners, notify_idx, delivered, in_constructor, render_settings,
           texture_manager,
           loaded_shaderpack,
           main_framebuffer, shadow_framebuffer, main_framebuffer_builder,
           shadow_framebuffer_builder, gl_next_name, gl_deleted, gl_wired,
           ubo_registrations, gl_program,
           gl_textures, native_lookups, returned_locations, generation, name_before,
           reaction_log, frame_log, bound_passes, pass_shader, pass_key, pass_start,
           pass_geometry, pass_trace >>

config_vars == << render_settings, texture_manager >>

\* The material loader, exercised on its own on material states drawn from
\* bounded sets (the renderer takes no step meanwhile, and the loader none
\* while the renderer runs).
VARIABLES
    loader_pc,                  \* position of the loader
    discovered_passes,          \* material states of a pack, in discovery order
    exposed_passes              \* the order the pack hands them out for drawing

VARIABLES
    material_states,            \* material states as parsed, by name
    resolved_states,            \* by name: the state with its inherited fields filled in
    rejected_states,            \* names of the states rejected for their parent chain
    resolving,                  \* parent chain the resolution is walking, child first
    resolve_steps               \* steps the resolution has made

VARIABLES
    pack_states,                \* by name: what compiling the state leads to, and its fallback
    compile_queue,              \* states the load has still to compile
    pack_shaders,               \* by pass name: the state whose shaders the pass got
    omitted_states              \* names of the states reported and left out

VARIABLES
    source_lines,               \* lines sent to the compiler, each with its file and line on disk
    driver_message,             \* the compiler's error message, straight from the driver
    thrown_message              \* what() of the compilation_error thrown for it

passes_vars == << discovered_passes, exposed_passes >>
lines_vars == << source_lines, driver_message, thrown_message >>
load_vars == << pack_states, compile_queue, pack_shaders, omitted_states >>
parents_vars == << material_states, resolved_states, rejected_states, resolving,
                   resolve_steps >>
loader_vars == << loader_pc, passes_vars, parents_vars, load_vars, lines_vars >>
pipeline_vars == << loaded_shaderpack, main_framebuffer, shadow_framebuffer,
                    main_framebuffer_builder, shadow_framebuffer_builder, generation >>
gpu_vars == << gl_next_name, gl_deleted, gl_wired, ubo_registrations >>
draw_vars == << gl_program, gl_textures >>
cache_vars == << native_lookups, returned_locations >>
notify_vars == << listeners, notify_idx, delivered, in_constructor, name_before,
                 reaction_log >>
pass_vars == << bound_passes, pass_shader, pass_key, pass_start, pass_geometry, pass_trace >>

----------------------------------------------------------------------------
(* Shader program objects and the GPU programs they name *)

\* std::unordered_map<std::string, GLint> with no entry.
EmptyLocations == [n \in {} |-> 0]

\* gl_shader_program(const shader_definition&): a linked program under a
\* fresh GPU name, nothing cached yet.
gl_shader_program(source, gl_name) ==
    [gl_name |-> gl_name, name |-> source.name, filter |-> source.filter,
     uniform_locations |-> EmptyLocations]

\* No program object: what the record of a pass holds outside a pass.
NoProgram ==
    [gl_name |-> 0, name |-> None, filter |-> None, uniform_locations |-> EmptyLocations]

\* gl_shader_program(const gl_shader_program&) = default: memberwise copy,
\* the GPU name included.
copy_construct(other) == other

\* gl_shader_program(gl_shader_program&&): the new object takes the GPU name,
\* the source keeps the null name.
move_construct(other) ==
    [new |-> other,
     source |-> [other EXCEPT !.gl_name = 0, !.uniform_locations = EmptyLocations]]

\* ~gl_shader_program(): glDeleteProgram on the held name; the null name
\* releases nothing.  `deleted` counts the deletions per name.
destroy(deleted, program) ==
    IF program.gl_name = 0 THEN deleted
    ELSE [deleted EXCEPT ![program.gl_name] = @ + 1]

RECURSIVE destroy_all(_, _)
destroy_all(deleted, programs) ==
    IF programs = <<>> THEN deleted
    ELSE destroy_all(destroy(deleted, Head(programs)), Tail(programs))

\* A null loaded_shaderpack pointer.
NoShaderpack ==
    [name |-> None, generation |-> 0, shaders |-> EmptyLocations, passes |-> <<>>]

\* The program objects a shaderpack's map holds, one per pass.
programs_of(pack) == [i \in DOMAIN pack.passes |-> pack.shaders[pack.passes[i].name]]

\* load_shaderpack(name): every pass compiled into a program under a fresh GPU
\* name and move-constructed into the pack's map; `temporaries` are the
\* moved-from builder results, destroyed when the load returns.
load_shaderpack(name, first_name, gen) ==
    LET definitions == ShaderDefinitions(name)
        built == [i \in DOMAIN definitions |->
                    move_construct(gl_shader_program(definitions[i], first_name + i - 1))]
    IN  [pack |-> [name |-> name, generation |-> gen,
                   shaders |-> [p \in { definitions[i].name : i \in DOMAIN definitions } |->
                                  built[CHOOSE i \in DOMAIN definitions :
                                            definitions[i].name = p].new],
                   passes |-> definitions],
         temporaries |-> [i \in DOMAIN definitions |-> built[i].source]]

----------------------------------------------------------------------------
(* Framebuffer builder *)

NewBuilder == [width |-> 0, height |-> 0, attachments |-> {}]

\* A null framebuffer pointer.
NoFramebuffer == [width |-> 0, height |-> 0, attachments |-> {}, built_for |-> 0]

set_framebuffer_size(builder, w, h) == [builder EXCEPT !.width = w, !.height = h]

enable_color_attachment(builder, index) ==
    [builder EXCEPT !.attachments = @ \cup {index}]

RECURSIVE enable_color_attachments(_, _)
enable_color_attachments(builder, indices) ==
    IF indices = <<>> THEN builder
    ELSE enable_color_attachments(enable_color_attachment(builder, Head(indices)),
                                  Tail(indices))

\* build(): a framebuffer of the accumulated size and attachments; built_for
\* records the shaderpack load it was built after.
build(builder, gen) ==
    [width |-> builder.width, height |-> builder.height,
     attachments |-> builder.attachments, built_for |-> gen]

----------------------------------------------------------------------------
(* Control flow of the two entry points *)

\* render_frame with the per-frame uniforms sent only after the gbuffer passes.
render_frame_steps_uniforms_late ==
    << "upload_new_geometry", "render_shadow_pass", "glClear", "render_gbuffers",
       "update_gbuffer_ubos", "render_composite_passes", "render_final_pass",
       "render_gui", "end_frame" >>

\* The statements of render_frame, in source order.
render_frame_steps ==
    << "upload_new_geometry", "render_shadow_pass", "glClear", "update_gbuffer_ubos",
       "render_gbuffers", "render_composite_passes", "render_final_pass",
       "render_gui", "end_frame" >>

\* load_new_shaderpack building the framebuffers before wiring the buffers.
load_new_shaderpack_steps_framebuffers_first ==
    << "load_shaderpack", "main_framebuffer", "shadow_framebuffer",
       "link_up_uniform_buffers" >>

\* The statements of load_new_shaderpack and of
\* create_framebuffers_from_shaderpack, which it ends with, in source order.
load_new_shaderpack_steps ==
    << "load_shaderpack", "link_up_uniform_buffers", "main_framebuffer",
       "shadow_framebuffer" >>

IndexOf(steps, s) == CHOOSE i \in DOMAIN steps : steps[i] = s

\* Where the thread is once statement s of `steps` has run; `after` when s
\* was the last one.
StepAfter(steps, s, after) ==
    IF IndexOf(steps, s) = Len(steps) THEN after ELSE steps[IndexOf(steps, s) + 1]

\* render_frame is entered from the idle host loop at its first statement.
AtFrameStep(s) ==
    /\ s \in Range(render_frame_steps)
    /\ IF s = render_frame_steps[1] THEN pc = "idle" ELSE pc = s

AfterFrameStep(s) == StepAfter(render_frame_steps, s, "idle")

InFrame ==
    pc \in Range(render_frame_steps) \cup {"render_gbuffers_water", "process_all", "process_gui"}

InReaction == pc \in Range(load_new_shaderpack_steps) \cup {"on_config_change"}

----------------------------------------------------------------------------
(* Construction *)

\* The renderer before its constructor has run.
RendererInit ==
    /\ pc = "constructor"
    /\ listeners = <<>>
    /\ notify_idx = 0
    /\ delivered = <<>>
    /\ in_constructor = TRUE
    /\ render_settings \in Options
    /\ texture_manager \in TextureSets
    /\ loaded_shaderpack = NoShaderpack
    /\ main_framebuffer = NoFramebuffer
    /\ shadow_framebuffer = NoFramebuffer
    /\ main_framebuffer_builder = NewBuilder
    /\ shadow_framebuffer_builder = NewBuilder
    /\ gl_next_name = 1
    /\ gl_deleted = <<>>
    /\ gl_wired = {}
    /\ ubo_registrations = <<>>
    /\ gl_program = 0
    /\ gl_textures = [unit \in 0..3 |-> None]
    /\ native_lookups = [p \in Range(PassNames) |-> 0]
    /\ returned_locations = [p \in Range(PassNames) |-> {}]
    /\ generation = 0
    /\ name_before = None
    /\ reaction_log = <<>>
    /\ frame_log = <<>>
    /\ bound_passes = <<>>
    /\ pass_shader = None
    /\ pass_key = None
    /\ pass_start = [textures |-> gl_textures, program |-> NoProgram]
    /\ pass_geometry = <<>>
    /\ pass_trace = <<>>

\* No pass list is being ordered.
NoPasses ==
    /\ discovered_passes = <<>>
    /\ exposed_passes = <<>>

\* No material states are being resolved.
NoParents ==
    /\ material_states = <<>>
    /\ resolved_states = <<>>
    /\ rejected_states = {}
    /\ resolving = <<>>
    /\ resolve_steps = 0

\* No pack is being compiled.
NoLoad ==
    /\ pack_states = <<>>
    /\ compile_queue = <<>>
    /\ pack_shaders = <<>>
    /\ omitted_states = {}

\* No shader is being compiled.
NoLines ==
    /\ source_lines = <<>>
    /\ driver_message = <<>>
    /\ thrown_message = <<>>

Init ==
    /\ RendererInit
    /\ loader_pc = "off"
    /\ NoPasses
    /\ NoParents
    /\ NoLoad
    /\ NoLines

\* nova_renderer(): the collaborators are created and the three listeners
\* registered, the uniform buffer store first and the renderer last.
Constructor_registers_renderer_first ==
    /\ pc = "constructor"
    /\ listeners' = << "nova_renderer", "ubo_manager", "game_window" >>
    /\ pc' = "update_config_loaded"
    /\ UNCHANGED << notify_idx, delivered, in_constructor, name_before, reaction_log,
                    loader_vars, config_vars, pipeline_vars, gpu_vars, draw_vars,
                    cache_vars, frame_log, pass_vars >>

Constructor ==
    /\ pc = "constructor"
    /\ listeners' = << "ubo_manager", "game_window", "nova_renderer" >>
    /\ pc' = "update_config_loaded"
    /\ UNCHANGED << notify_idx, delivered, in_constructor, name_before, reaction_log,
                    loader_vars, config_vars, pipeline_vars, gpu_vars, draw_vars,
                    cache_vars, frame_log, pass_vars >>

\* One listener is handed a notification.
deliver(log, notification, listener) ==
    Append(log, [notification |-> notification, listener |-> listener])

RECURSIVE deliver_all(_, _, _)
deliver_all(log, notification, to) ==
    IF to = <<>> THEN log
    ELSE deliver_all(deliver(log, notification, Head(to)), notification, Tail(to))

\* render_settings->update_config_loaded(): every listener is handed the
\* initial-load notification; on_config_loaded of the renderer does nothing.
UpdateConfigLoaded ==
    /\ pc = "update_config_loaded"
    /\ delivered' = deliver_all(delivered, "config_loaded", listeners)
    /\ pc' = "update_config_changed"
    /\ UNCHANGED << listeners, notify_idx, in_constructor, name_before, reaction_log,
                    loader_vars, config_vars, pipeline_vars, gpu_vars, draw_vars,
                    cache_vars, frame_log, pass_vars >>

\* settings::update_config_changed() starts handing the options to the
\* listeners, first registered first.
StartNotification(from_constructor) ==
    /\ notify_idx' = 1
    /\ in_constructor' = from_constructor
    /\ name_before' = loaded_shaderpack.name
    /\ reaction_log' = <<>>
    /\ pc' = "notify"
    /\ UNCHANGED << listeners, delivered, loader_vars, texture_manager, pipeline_vars,
                    gpu_vars, draw_vars, cache_vars, frame_log, pass_vars >>

\* render_settings->update_config_changed() of the constructor.
UpdateConfigChanged ==
    /\ pc = "update_config_changed"
    /\ UNCHANGED render_settings
    /\ StartNotification(TRUE)

\* The host changes the options between two frames and has the settings
\* object notify its listeners.
ConfigChanged ==
    /\ pc = "idle"
    /\ \E options \in Options :
         /\ generation < MaxLoads \/ options.loadedShaderpack = loaded_shaderpack.name
         /\ render_settings' = options
    /\ StartNotification(FALSE)

\* on_config_change of the uniform buffer store and of the window: nothing of
\* the renderer's state is touched.
NotifyCollaborator ==
    /\ pc = "notify"
    /\ notify_idx <= Len(listeners)
    /\ listeners[notify_idx] # "nova_renderer"
    /\ delivered' = deliver(delivered, "config_change", listeners[notify_idx])
    /\ notify_idx' = notify_idx + 1
    /\ UNCHANGED << pc, listeners, in_constructor, name_before, reaction_log, loader_vars,
                    config_vars, pipeline_vars, gpu_vars, draw_vars, cache_vars, frame_log,
                    pass_vars >>

NotifyRenderer ==
    /\ pc = "notify"
    /\ notify_idx <= Len(listeners)
    /\ listeners[notify_idx] = "nova_renderer"
    /\ delivered' = deliver(delivered, "config_change", listeners[notify_idx])
    /\ pc' = "on_config_change"
    /\ UNCHANGED << listeners, notify_idx, in_constructor, name_before, reaction_log,
                    loader_vars, config_vars, pipeline_vars, gpu_vars, draw_vars,
                    cache_vars, frame_log, pass_vars >>

\* Every listener has returned; the constructor goes on to init_opengl_state.
\* The record of the notification ends with it.
NotificationDone ==
    /\ pc = "notify"
    /\ notify_idx > Len(listeners)
    /\ pc' = IF in_constructor THEN "init_opengl_state" ELSE "idle"
    /\ in_constructor' = FALSE
    /\ name_before' = None
    /\ reaction_log' = <<>>
    /\ delivered' = <<>>
    /\ UNCHANGED << listeners, notify_idx, loader_vars, config_vars, pipeline_vars,
                    gpu_vars, draw_vars, cache_vars, frame_log, pass_vars >>

\* init_opengl_state(): clear colour, depth test, blending, culling.
InitOpenglState ==
    /\ pc = "init_opengl_state"
    /\ pc' = "idle"
    /\ UNCHANGED << notify_vars, loader_vars, config_vars, pipeline_vars, gpu_vars, draw_vars,
                    cache_vars, frame_log, pass_vars >>

----------------------------------------------------------------------------
(* Configuration reaction *)

\* The comparison left out: every notification counts as a new pack.
shaderpack_in_settings_is_new_always(shaderpack_name, pack) == TRUE

\* The comparison inverted: == for !=.
shaderpack_in_settings_is_new_inverted(shaderpack_name, pack) == shaderpack_name = pack.name

\* The comparison left out the other way: no notification counts as a new pack.
shaderpack_in_settings_is_new_never(shaderpack_name, pack) == FALSE

\* bool shaderpack_in_settings_is_new
shaderpack_in_settings_is_new(shaderpack_name, pack) == shaderpack_name # pack.name

\* on_config_change returns to the settings object, which goes to the next
\* listener.
ReturnToSettings ==
    /\ pc' = "notify"
    /\ notify_idx' = notify_idx + 1

AfterLoadStep(s) == StepAfter(load_new_shaderpack_steps, s, "return")

ReactionStep(s) ==
    /\ pc = s
    /\ reaction_log' = Append(reaction_log, s)
    /\ IF AfterLoadStep(s) = "return"
       THEN ReturnToSettings
       ELSE pc' = AfterLoadStep(s) /\ UNCHANGED notify_idx
    /\ UNCHANGED << listeners, delivered, in_constructor, name_before >>

\* on_config_change up to the call of load_new_shaderpack: load when there is
\* no shaderpack or when the configured name is not the loaded one.
OnConfigChange ==
    /\ pc = "on_config_change"
    /\ LET shaderpack_name == render_settings.loadedShaderpack
       IN  IF loaded_shaderpack.name = None
              \/ shaderpack_in_settings_is_new(shaderpack_name, loaded_shaderpack)
           THEN pc' = load_new_shaderpack_steps[1] /\ UNCHANGED notify_idx
           ELSE ReturnToSettings
    /\ UNCHANGED << listeners, delivered, in_constructor, name_before, reaction_log,
                    loader_vars, config_vars, pipeline_vars, gpu_vars, draw_vars,
                    cache_vars, frame_log, pass_vars >>

\* loaded_shaderpack = std::make_shared<shaderpack>(load_shaderpack(name)):
\* the new pack is loaded, then the assignment drops the last reference to the
\* old pack, whose programs are destroyed.
LoadShaderpack ==
    /\ ReactionStep("load_shaderpack")
    /\ LET loaded == load_shaderpack(render_settings.loadedShaderpack, gl_next_name,
                                     generation + 1)
           created == gl_deleted \o [i \in DOMAIN loaded.temporaries |-> 0]
           after_load == destroy_all(created, loaded.temporaries)
       IN  /\ loaded_shaderpack' = loaded.pack
           /\ gl_next_name' = gl_next_name + Len(loaded.temporaries)
           /\ gl_deleted' = destroy_all(after_load, programs_of(loaded_shaderpack))
    /\ generation' = generation + 1
    /\ ubo_registrations' = <<>>
    /\ native_lookups' = [p \in Range(PassNames) |-> 0]
    /\ returned_locations' = [p \in Range(PassNames) |-> {}]
    /\ UNCHANGED << loader_vars, config_vars, main_framebuffer, shadow_framebuffer,
                    main_framebuffer_builder, shadow_framebuffer_builder, gl_wired,
                    draw_vars, frame_log, pass_vars >>

\* One call of the lambda of link_up_uniform_buffers: `auto shader` is a copy
\* of the map's entry; the copy is what register_all_buffers_with_shader is
\* given, and it is destroyed when the lambda returns.
register_copy(gpu, shader) ==
    LET copy == copy_construct(shader)
    IN  [wired |-> gpu.wired \cup {copy.gl_name},
         registered |-> Append(gpu.registered,
                               [name |-> copy.name, gl_name |-> copy.gl_name,
                                object |-> "copy"]),
         deleted |-> destroy(gpu.deleted, copy)]

RECURSIVE link_up_uniform_buffers(_, _)
link_up_uniform_buffers(gpu, shaders) ==
    IF shaders = <<>> THEN gpu
    ELSE link_up_uniform_buffers(register_copy(gpu, Head(shaders)), Tail(shaders))

LinkUpUniformBuffers ==
    /\ ReactionStep("link_up_uniform_buffers")
    /\ LET gpu == link_up_uniform_buffers(
                      [wired |-> gl_wired, registered |-> ubo_registrations,
                       deleted |-> gl_deleted],
                      programs_of(loaded_shaderpack))
       IN  /\ gl_wired' = gpu.wired
           /\ ubo_registrations' = gpu.registered
           /\ gl_deleted' = gpu.deleted
    /\ UNCHANGED << loader_vars, config_vars, pipeline_vars, gl_next_name, draw_vars, cache_vars,
                    frame_log, pass_vars >>

\* create_framebuffers_from_shaderpack, first half: the main builder gets the
\* view size and attachments 0..7, and the main framebuffer is replaced.
BuildMainFramebuffer ==
    /\ ReactionStep("main_framebuffer")
    /\ LET settings == render_settings.settings
           builder == enable_color_attachments(
                          set_framebuffer_size(main_framebuffer_builder,
                                               settings.viewWidth, settings.viewHeight),
                          << 0, 1, 2, 3, 4, 5, 6, 7 >>)
       IN  /\ main_framebuffer_builder' = builder
           /\ main_framebuffer' = build(builder, generation)
    /\ UNCHANGED << loader_vars, config_vars, loaded_shaderpack, shadow_framebuffer,
                    shadow_framebuffer_builder, generation, gpu_vars, draw_vars,
                    cache_vars, frame_log, pass_vars >>

\* The second half written against the main builder: one builder feeds both
\* framebuffers.
BuildShadowFramebuffer_shares_builder ==
    /\ ReactionStep("shadow_framebuffer")
    /\ LET settings == render_settings.settings
           builder == enable_color_attachments(
                          set_framebuffer_size(main_framebuffer_builder,
                                               settings.shadowMapResolution,
                                               settings.shadowMapResolution),
                          << 0, 1, 2, 3 >>)
       IN  /\ main_framebuffer_builder' = builder
           /\ shadow_framebuffer' = build(builder, generation)
    /\ UNCHANGED << loader_vars, config_vars, loaded_shaderpack, main_framebuffer,
                    shadow_framebuffer_builder, generation, gpu_vars, draw_vars,
                    cache_vars, frame_log, pass_vars >>

\* Second half: the shadow builder gets the square shadow-map size and
\* attachments 0..3, and the shadow framebuffer is replaced.
BuildShadowFramebuffer ==
    /\ ReactionStep("shadow_framebuffer")
    /\ LET settings == render_settings.settings
           builder == enable_color_attachments(
                          set_framebuffer_size(shadow_framebuffer_builder,
                                               settings.shadowMapResolution,
                                               settings.shadowMapResolution),
                          << 0, 1, 2, 3 >>)
       IN  /\ shadow_framebuffer_builder' = builder
           /\ shadow_framebuffer' = build(builder, generation)
    /\ UNCHANGED << loader_vars, config_vars, loaded_shaderpack, main_framebuffer,
                    main_framebuffer_builder, generation, gpu_vars, draw_vars,
                    cache_vars, frame_log, pass_vars >>

----------------------------------------------------------------------------
(* One pass *)

\* glGetUniformLocation: the location of an active uniform of a live
\* program; -1, with a GL error, for a name that is no program any more.
glGetUniformLocation(deleted, gl_name, uniform_name) ==
    IF gl_name = 0 \/ deleted[gl_name] > 0 THEN NotFound
    ELSE IF uniform_name \in UniformNames THEN 0 ELSE NotFound

\* gl_shader_program::get_uniform_location: the cached location when the
\* name has an entry, else one glGetUniformLocation whose answer is cached.
get_uniform_location(program, deleted, uniform_name) ==
    IF uniform_name \in DOMAIN program.uniform_locations
    THEN [location |-> program.uniform_locations[uniform_name],
          program |-> program, native |-> 0]
    ELSE LET location == glGetUniformLocation(deleted, program.gl_name, uniform_name)
         IN  [location |-> location,
              program |-> [program EXCEPT !.uniform_locations =
                              [n \in DOMAIN @ \cup {uniform_name} |->
                                  IF n = uniform_name THEN location ELSE @[n]]],
              native |-> 1]

\* The state the statements of a pass work on: the texture bindings, the
\* bound program's object, the GL calls of the pass so far, the native
\* lookups made and the locations handed back, and the exception thrown, if
\* one was.
PassState(program, textures, trace) ==
    [textures |-> textures, program |-> program, trace |-> trace,
     native |-> 0, returned |-> {}, error |-> None]

\* An exception is on its way out of the pass: no later statement runs.
Thrown(st) == st.error # None

\* texture_manager::get_texture(name): the texture of that name; fails when
\* the manager holds none.
get_texture(manager, name) == [found |-> name \in manager, texture |-> name]

\* textures->get_texture(name).bind(unit): the failure of get_texture leaves
\* the statement as an exception.
bind_texture(st, unit, name) ==
    IF Thrown(st) THEN st
    ELSE LET got == get_texture(texture_manager, name)
         IN  IF got.found
             THEN [st EXCEPT !.textures[unit] = got.texture,
                             !.trace = Append(@, [op |-> "bind_texture", unit |-> unit,
                                                  name |-> got.texture])]
             ELSE [st EXCEPT !.error = name,
                             !.trace = Append(@, [op |-> "throw", name |-> name])]

\* shader.bind(): glUseProgram of the held name.
bind_program(st) ==
    [st EXCEPT !.trace = Append(@, [op |-> "glUseProgram", gl_name |-> st.program.gl_name])]

\* upload_model_matrix asking the driver itself instead of the program object.
upload_model_matrix_uncached(st, deleted) ==
    LET location == glGetUniformLocation(deleted, st.program.gl_name, "gbufferModel")
    IN  IF Thrown(st) THEN st ELSE
        [st EXCEPT !.native = @ + 1,
                   !.returned = @ \cup {location},
                   !.trace = Append(@, [op |-> "glUniformMatrix4fv",
                                        location |-> location])]

\* upload_model_matrix / upload_gui_model_matrix: the location of
\* "gbufferModel" is asked of the program, then glUniformMatrix4fv.
upload_model_matrix(st, deleted) ==
    LET got == get_uniform_location(st.program, deleted, "gbufferModel")
    IN  IF Thrown(st) THEN st ELSE
        [st EXCEPT !.program = got.program,
                   !.native = @ + got.native,
                   !.returned = @ \cup {got.location},
                   !.trace = Append(@, [op |-> "glUniformMatrix4fv",
                                        location |-> got.location])]

\* geom.geometry->set_active(); geom.geometry->draw();
draw(st, geom) ==
    IF Thrown(st) THEN st
    ELSE [st EXCEPT !.trace = Append(@, [op |-> "draw", geom |-> geom,
                                         textures |-> st.textures])]

\* The loop body with the colour texture bound before has_data() is asked.
process_renderable_binds_before_check(st, geom, deleted) ==
    LET color == IF geom.color_texture # ""
                 THEN bind_texture(st, 0, geom.color_texture) ELSE st
    IN  IF geom.has_data
        THEN LET normal == IF geom.normalmap # None
                           THEN bind_texture(color, 1, geom.normalmap) ELSE color
                 data == IF geom.data_texture # None
                         THEN bind_texture(normal, 2, geom.data_texture) ELSE normal
                 lightmap == bind_texture(data, 3, "lightmap")
             IN  draw(upload_model_matrix(lightmap, deleted), geom)
        ELSE color

\* The loop body with the model matrix uploaded only after the draw call.
process_renderable_uploads_after_draw(st, geom, deleted) ==
    IF geom.has_data
    THEN LET color == IF geom.color_texture # ""
                      THEN bind_texture(st, 0, geom.color_texture) ELSE st
             normal == IF geom.normalmap # None
                       THEN bind_texture(color, 1, geom.normalmap) ELSE color
             data == IF geom.data_texture # None
                     THEN bind_texture(normal, 2, geom.data_texture) ELSE normal
             lightmap == bind_texture(data, 3, "lightmap")
         IN  upload_model_matrix(draw(lightmap, geom), deleted)
    ELSE st

\* The body of render_shader's loop for one renderable.
process_renderable(st, geom, deleted) ==
    IF geom.has_data
    THEN LET color == IF geom.color_texture # ""
                      THEN bind_texture(st, 0, geom.color_texture) ELSE st
             normal == IF geom.normalmap # None
                       THEN bind_texture(color, 1, geom.normalmap) ELSE color
             data == IF geom.data_texture # None
                     THEN bind_texture(normal, 2, geom.data_texture) ELSE normal
             lightmap == bind_texture(data, 3, "lightmap")
         IN  draw(upload_model_matrix(lightmap, deleted), geom)
    ELSE st

RECURSIVE process_all(_, _, _)
process_all(st, geometry, deleted) ==
    IF geometry = <<>> THEN st
    ELSE process_all(process_renderable(st, Head(geometry), deleted), Tail(geometry),
                     deleted)

\* The key render_shader gives the mesh store.
meshes_key(shader) == shader.name

\* render_shader up to its loop: the program is bound.
begin_render_shader(shader, textures) == bind_program(PassState(shader, textures, <<>>))

\* render_shader(shader) when the mesh store answers with `geometry`.
render_shader(shader, textures, geometry, deleted) ==
    process_all(begin_render_shader(shader, textures), geometry, deleted)

\* The body of render_gui's loop for one renderable.
process_gui_renderable_checks_data(st, geom) ==
    IF geom.has_data
    THEN draw(IF geom.color_texture # ""
              THEN bind_texture(st, 0, geom.color_texture) ELSE st,
              geom)
    ELSE st

process_gui_renderable(st, geom) ==
    draw(IF geom.color_texture # "" THEN bind_texture(st, 0, geom.color_texture) ELSE st,
         geom)

\* render_gui clearing the colour buffer along with the depth buffer.
begin_render_gui_clears_color(shader, textures, deleted) ==
    upload_model_matrix(
        bind_program(PassState(shader, textures,
                               << [op |-> "glClear", bits |-> {"color", "depth"}] >>)),
        deleted)

\* render_gui up to its loop: depth cleared, "gui" bound, viewport transform
\* uploaded.
begin_render_gui(shader, textures, deleted) ==
    upload_model_matrix(
        bind_program(PassState(shader, textures,
                               << [op |-> "glClear", bits |-> {"depth"}] >>)),
        deleted)

\* What the statements of a pass leave behind in the renderer and the GPU.
\* Nothing in render_shader, render_gui or render_frame catches an exception:
\* it leaves render_frame, whose remaining statements are never made.
StorePass(st) ==
    /\ pc' = IF Thrown(st) THEN "failed" ELSE pc
    /\ loaded_shaderpack' = [loaded_shaderpack EXCEPT !.shaders[pass_shader] = st.program]
    /\ gl_program' = st.program.gl_name
    /\ gl_textures' = st.textures
    /\ native_lookups' = [native_lookups EXCEPT ![pass_shader] = @ + st.native]
    /\ returned_locations' = [returned_locations EXCEPT ![pass_shader] = @ \cup st.returned]
    /\ pass_trace' = st.trace
    /\ UNCHANGED << notify_vars, loader_vars, config_vars, main_framebuffer, shadow_framebuffer,
                    main_framebuffer_builder, shadow_framebuffer_builder, generation,
                    gpu_vars >>

----------------------------------------------------------------------------
(* render_frame *)

\* Statement s of render_frame runs: the thread is at it, and goes on to the
\* statement after it.
FrameStep(s) ==
    /\ AtFrameStep(s)
    /\ frame_log' = IF pc = "idle" THEN << s >> ELSE Append(frame_log, s)

NoPass ==
    /\ bound_passes' = <<>>
    /\ pass_shader' = None
    /\ pass_key' = None
    /\ pass_start' = [textures |-> gl_textures, program |-> NoProgram]
    /\ pass_geometry' = <<>>
    /\ pass_trace' = <<>>

\* A statement that touches nothing the model follows; the record of the
\* last pass ends with the pass.
PlainFrameStep(s) ==
    /\ FrameStep(s)
    /\ pc' = AfterFrameStep(s)
    /\ NoPass
    /\ UNCHANGED << notify_vars, loader_vars, config_vars, pipeline_vars, gpu_vars, draw_vars,
                    cache_vars >>

\* profiler and frustum bookkeeping, then meshes->upload_new_geometry().
UploadNewGeometry == PlainFrameStep("upload_new_geometry")

\* render_shadow_pass rebuilding the shadow framebuffer at the configured
\* resolution before it renders into it.
RenderShadowPass_rebuilds_framebuffer ==
    /\ FrameStep("render_shadow_pass")
    /\ pc' = AfterFrameStep("render_shadow_pass")
    /\ NoPass
    /\ LET resolution == render_settings.settings.shadowMapResolution
           builder == set_framebuffer_size(shadow_framebuffer_builder, resolution,
                                           resolution)
       IN  /\ shadow_framebuffer_builder' = builder
           /\ shadow_framebuffer' = build(builder, generation)
    /\ UNCHANGED << notify_vars, loader_vars, config_vars, loaded_shaderpack, main_framebuffer,
                    main_framebuffer_builder, generation, gpu_vars, draw_vars,
                    cache_vars >>

RenderShadowPass == PlainFrameStep("render_shadow_pass")

\* glClear(GL_COLOR_BUFFER_BIT | GL_DEPTH_BUFFER_BIT)
ClearMainTargets == PlainFrameStep("glClear")

\* update_gbuffer_ubos(): per_frame_ubo.send_data(camera matrices)
UpdateGbufferUbos == PlainFrameStep("update_gbuffer_ubos")

\* render_shader(get_shader(pass)) up to the loop over the renderables.
BeginRenderShader(pass) ==
    LET shader == loaded_shaderpack.shaders[pass]
    IN  /\ bound_passes' = Append(bound_passes, pass)
        /\ pass_shader' = pass
        /\ pass_key' = meshes_key(shader)
        /\ pass_start' = [textures |-> gl_textures, program |-> shader]
        /\ pass_geometry' = <<>>
        /\ pc' = "process_all"
        /\ LET st == begin_render_shader(shader, gl_textures)
           IN  /\ gl_program' = st.program.gl_name
               /\ pass_trace' = st.trace
        /\ UNCHANGED << notify_vars, loader_vars, config_vars, pipeline_vars, gpu_vars, gl_textures,
                        cache_vars >>

\* render_gbuffers, first half: render_shader(get_shader("gbuffers_terrain"))
RenderGbuffersTerrain ==
    /\ FrameStep("render_gbuffers")
    /\ BeginRenderShader("gbuffers_terrain")

\* render_gbuffers, second half: render_shader(get_shader("gbuffers_water"))
RenderGbuffersWater ==
    /\ pc = "render_gbuffers_water"
    /\ UNCHANGED frame_log
    /\ BeginRenderShader("gbuffers_water")

\* One turn of render_shader's loop: the bucket's next renderable.
ProcessRenderable ==
    /\ pc = "process_all"
    /\ Len(pass_geometry) < MaxBucket
    /\ \E geom \in RenderObjects :
         /\ pass_geometry' = Append(pass_geometry, geom)
         /\ StorePass(process_renderable(
                PassState(loaded_shaderpack.shaders[pass_shader], gl_textures, pass_trace),
                geom, gl_deleted))
    /\ UNCHANGED << frame_log, bound_passes, pass_shader, pass_key, pass_start >>

\* The bucket is exhausted: render_shader returns into render_gbuffers.
EndRenderShader ==
    /\ pc = "process_all"
    /\ pc' = IF pass_shader = "gbuffers_terrain" THEN "render_gbuffers_water"
             ELSE AfterFrameStep("render_gbuffers")
    /\ UNCHANGED << notify_vars, loader_vars, config_vars, pipeline_vars, gpu_vars, draw_vars,
                    cache_vars, frame_log, pass_vars >>

\* render_composite_passes switching the configured pack in mid-frame.
RenderCompositePasses_switches_pack ==
    /\ pc = "render_composite_passes"
    /\ \E options \in Options :
         /\ generation < MaxLoads
         /\ options.loadedShaderpack # loaded_shaderpack.name
         /\ render_settings' = options
    /\ StartNotification(FALSE)

RenderCompositePasses == PlainFrameStep("render_composite_passes")

RenderFinalPass == PlainFrameStep("render_final_pass")

\* render_gui up to the loop over the GUI renderables.
RenderGui ==
    /\ FrameStep("render_gui")
    /\ pc' = "process_gui"
    /\ bound_passes' = << "gui" >>
    /\ pass_shader' = "gui"
    /\ pass_key' = "gui"
    /\ pass_start' = [textures |-> gl_textures, program |-> loaded_shaderpack.shaders["gui"]]
    /\ pass_geometry' = <<>>
    /\ LET st == begin_render_gui(loaded_shaderpack.shaders["gui"], gl_textures, gl_deleted)
       IN  /\ loaded_shaderpack' = [loaded_shaderpack EXCEPT !.shaders["gui"] = st.program]
           /\ gl_program' = st.program.gl_name
           /\ native_lookups' = [native_lookups EXCEPT !["gui"] = @ + st.native]
           /\ returned_locations' = [returned_locations EXCEPT !["gui"] = @ \cup st.returned]
           /\ pass_trace' = st.trace
    /\ UNCHANGED << notify_vars, loader_vars, config_vars, main_framebuffer, shadow_framebuffer,
                    main_framebuffer_builder, shadow_framebuffer_builder, generation,
                    gpu_vars, gl_textures >>

\* One turn of render_gui's loop.
ProcessGuiRenderable ==
    /\ pc = "process_gui"
    /\ Len(pass_geometry) < MaxBucket
    /\ \E geom \in RenderObjects :
         /\ pass_geometry' = Append(pass_geometry, geom)
         /\ StorePass(process_gui_renderable(
                PassState(loaded_shaderpack.shaders[pass_shader], gl_textures, pass_trace),
                geom))
    /\ UNCHANGED << frame_log, bound_passes, pass_shader, pass_key, pass_start >>

EndRenderGui ==
    /\ pc = "process_gui"
    /\ pc' = AfterFrameStep("render_gui")
    /\ UNCHANGED << notify_vars, loader_vars, config_vars, pipeline_vars, gpu_vars, draw_vars,
                    cache_vars, frame_log, pass_vars >>

\* game_window->end_frame()
EndFrame == PlainFrameStep("end_frame")

----------------------------------------------------------------------------

Next ==
    \/ Constructor
    \/ UpdateConfigLoaded
    \/ UpdateConfigChanged
    \/ ConfigChanged
    \/ NotifyCollaborator
    \/ NotifyRenderer
    \/ NotificationDone
    \/ InitOpenglState
    \/ OnConfigChange
    \/ LoadShaderpack
    \/ LinkUpUniformBuffers
    \/ BuildMainFramebuffer
    \/ BuildShadowFramebuffer
    \/ UploadNewGeometry
    \/ RenderShadowPass
    \/ ClearMainTargets
    \/ UpdateGbufferUbos
    \/ RenderGbuffersTerrain
    \/ RenderGbuffersWater
    \/ ProcessRenderable
    \/ EndRenderShader
    \/ RenderCompositePasses
    \/ RenderFinalPass
    \/ RenderGui
    \/ ProcessGuiRenderable
    \/ EndRenderGui
    \/ EndFrame

Spec == Init /\ [][Next]_vars

----------------------------------------------------------------------------
(* The material loader: pass order *)

MaxPasses == 4     \* material states in one pack's pass list

\* Names of the material states of a pack, in the order they are discovered.
StateNames == << "s1", "s2", "s3", "s4", "s5", "s6" >>

\* Values of material_state::pass_index ("pass indices do not have to be
\* continuous").
PassIndices == {1, 3, 5}

all_vars == << vars, loader_vars >>

\* The renderer, not constructed, while the loader is exercised alone.
RendererUnbuilt ==
    /\ RendererInit
    /\ render_settings = CHOOSE o \in Options : TRUE
    /\ texture_manager = CHOOSE t \in TextureSets : TRUE

\* The pass lists a pack may be found to have.
PassLists ==
    UNION { { [k \in 1..n |-> [name |-> StateNames[k], pass_index |-> idx[k]]] :
              idx \in [1..n -> PassIndices] } : n \in 0..MaxPasses }

\* material_state::pass_index: "lower pass indices are drawn earlier, and
\* larger pass indices are drawn later".
drawn_earlier_larger_first(a, b) == a.pass_index > b.pass_index

drawn_earlier(a, b) == a.pass_index < b.pass_index

Orderings(n) == { f \in [1..n -> 1..n] : \A i, j \in 1..n : i # j => f[i] # f[j] }

\* The orders a pack may hand its passes out in: no pass comes before one
\* that is drawn earlier, and for states of the same pass index "Nova makes
\* no guarantees about when they will be drawn relative to each other".
pass_orders(states) ==
    { [k \in 1..Len(states) |-> states[f[k]]] :
        f \in { g \in Orderings(Len(states)) :
                  \A i, j \in 1..Len(states) :
                      i < j => ~drawn_earlier(states[g[j]], states[g[i]]) } }

PassesInit ==
    /\ RendererUnbuilt
    /\ loader_pc = "discovered"
    /\ discovered_passes \in PassLists
    /\ exposed_passes = <<>>
    /\ NoParents
    /\ NoLoad
    /\ NoLines

\* The pack orders the material states it found for drawing.
ExposePasses ==
    /\ loader_pc = "discovered"
    /\ \E order \in pass_orders(discovered_passes) : exposed_passes' = order
    /\ loader_pc' = "exposed"
    /\ UNCHANGED << discovered_passes, parents_vars, load_vars, lines_vars, vars >>

PassesNext == ExposePasses

PassesSpec == PassesInit /\ [][PassesNext]_all_vars

----------------------------------------------------------------------------
(* The material loader: parent resolution *)

MaxStates == 3     \* material states in one pack

\* A field the material file left out, and material_state::parent of a state
\* that names no parent.
Unset == "unset"
NoParent == ""

\* Fields of material_state a child may take from its parent.
InheritedFields == {"filters", "textures"}

\* create_material_from_json(name, parent, json): the state as parsed, each
\* field the file sets marked with the name of the state that set it.
create_material(name, parent, set_fields) ==
    [name |-> name, parent |-> parent,
     fields |-> [f \in InheritedFields |-> IF f \in set_fields THEN name ELSE Unset]]

\* The first n state names.
FirstNames(n) == { StateNames[k] : k \in 1..n }

\* Field resolution when a parent is named: "child's own fields always win;
\* unset child fields take the parent's resolved value".
inherit_parent_wins(child, parent) ==
    [child EXCEPT !.fields =
        [f \in InheritedFields |->
            IF parent.fields[f] # Unset THEN parent.fields[f] ELSE child.fields[f]]]

inherit(child, parent) ==
    [child EXCEPT !.fields =
        [f \in InheritedFields |->
            IF child.fields[f] # Unset THEN child.fields[f] ELSE parent.fields[f]]]

Settled == DOMAIN resolved_states \cup rejected_states
Pending == DOMAIN material_states \ (Settled \cup Range(resolving))

\* The state the walk stands on, and the parent it names.
Top == resolving[Len(resolving)]
TopParent == material_states[Top].parent

Pop(chain, n) == SubSeq(chain, 1, Len(chain) - n)

ParentsInit ==
    /\ RendererUnbuilt
    /\ NoPasses
    /\ NoLoad
    /\ NoLines
    /\ loader_pc = "resolving"
    \* a pack of up to MaxStates states, each naming no parent or another
    \* state of the pack
    /\ \E n \in 1..MaxStates :
           \E parent \in [FirstNames(n) -> FirstNames(n) \cup {NoParent}],
              set \in [FirstNames(n) -> SUBSET InheritedFields] :
               /\ \A s \in FirstNames(n) : parent[s] # s
               /\ material_states =
                      [s \in FirstNames(n) |-> create_material(s, parent[s], set[s])]
    /\ resolved_states = <<>>
    /\ rejected_states = {}
    /\ resolving = <<>>
    /\ resolve_steps = 0

ResolveStep ==
    /\ loader_pc = "resolving"
    /\ resolve_steps' = resolve_steps + 1
    /\ UNCHANGED << loader_pc, material_states, passes_vars, load_vars, lines_vars, vars >>

\* Resolution turns to a state not yet looked at, in whatever order the
\* states were parsed.
BeginResolve ==
    /\ resolving = <<>>
    /\ \E s \in Pending : resolving' = << s >>
    /\ ResolveStep
    /\ UNCHANGED << resolved_states, rejected_states >>

FollowParent_revisits ==
    /\ resolving # <<>>
    /\ TopParent \in DOMAIN material_states \ Settled
    /\ resolving' = Append(resolving, TopParent)
    /\ ResolveStep
    /\ UNCHANGED << resolved_states, rejected_states >>

\* Parents before children: the walk moves on to a parent not yet resolved.
FollowParent ==
    /\ resolving # <<>>
    /\ TopParent \in Pending
    /\ resolving' = Append(resolving, TopParent)
    /\ ResolveStep
    /\ UNCHANGED << resolved_states, rejected_states >>

\* A state without parent is resolved as parsed, a state with a resolved
\* parent takes the parent's resolved value for its unset fields.
ResolveState ==
    /\ resolving # <<>>
    /\ TopParent = NoParent \/ TopParent \in DOMAIN resolved_states
    /\ resolved_states' =
           [s \in DOMAIN resolved_states \cup {Top} |->
               IF s # Top THEN resolved_states[s]
               ELSE IF TopParent = NoParent THEN material_states[Top]
               ELSE inherit(material_states[Top], resolved_states[TopParent])]
    /\ resolving' = Pop(resolving, 1)
    /\ ResolveStep
    /\ UNCHANGED rejected_states

\* The parent chain revisits a name: every state from that name on is on a
\* cycle and rejected.
RejectCycle ==
    /\ resolving # <<>>
    /\ TopParent \in Range(resolving)
    /\ LET first == CHOOSE k \in DOMAIN resolving : resolving[k] = TopParent
       IN  /\ rejected_states' = rejected_states \cup
                                    { resolving[k] : k \in first..Len(resolving) }
           /\ resolving' = SubSeq(resolving, 1, first - 1)
    /\ ResolveStep
    /\ UNCHANGED resolved_states

\* The parent was rejected: there is no resolved value to inherit.
RejectChild ==
    /\ resolving # <<>>
    /\ TopParent \in rejected_states
    /\ rejected_states' = rejected_states \cup {Top}
    /\ resolving' = Pop(resolving, 1)
    /\ ResolveStep
    /\ UNCHANGED resolved_states

FinishResolution ==
    /\ loader_pc = "resolving"
    /\ resolving = <<>>
    /\ Pending = {}
    /\ loader_pc' = "resolved"
    /\ UNCHANGED << parents_vars, passes_vars, load_vars, lines_vars, vars >>

ParentsNext ==
    \/ BeginResolve
    \/ FollowParent
    \/ ResolveState
    \/ RejectCycle
    \/ RejectChild
    \/ FinishResolution

ParentsSpec == ParentsInit /\ [][ParentsNext]_all_vars

----------------------------------------------------------------------------
(* The material loader: compiling a pack *)

\* What making the program of one state leads to: a linked program, or one
\* of the failures of materials.h and gl_shader_program.h.
Outcomes == {"ok", "parse_error", "wrong_shader_version", "compilation_error",
             "program_linking_failure"}

\* material_state::fallback of a state that names none.
NoFallback == ""

\* The failures after which the fallback chain is attempted: a wrong shader
\* version and a compilation error.  A state that does not parse or does not
\* link is excluded.
attempts_fallback(outcome) == outcome \in {"wrong_shader_version", "compilation_error"}

\* The state whose shaders the pass of that name gets: the state itself when
\* it compiles, else the first state along its fallback chain that does, or
\* None when the chain is exhausted or comes back to a state already tried.
RECURSIVE working_shaders(_, _, _)
working_shaders(states, name, tried) ==
    LET state == states[name]
    IN  IF state.outcome = "ok" THEN name
        ELSE IF /\ attempts_fallback(state.outcome)
                /\ state.fallback # NoFallback
                /\ state.fallback \notin tried \cup {name}
             THEN working_shaders(states, state.fallback, tried \cup {name})
             ELSE None

LoadInit ==
    /\ RendererUnbuilt
    /\ NoPasses
    /\ NoParents
    /\ NoLines
    /\ loader_pc = "compiling"
    \* a pack of up to MaxStates states, each with no fallback or another
    \* state of the pack as fallback
    /\ \E n \in 1..MaxStates :
           \E outcome \in [FirstNames(n) -> Outcomes],
              fallback \in [FirstNames(n) -> FirstNames(n) \cup {NoFallback}] :
               /\ \A s \in FirstNames(n) : fallback[s] # s
               /\ pack_states = [s \in FirstNames(n) |->
                                    [name |-> s, outcome |-> outcome[s],
                                     fallback |-> fallback[s]]]
               /\ compile_queue = [k \in 1..n |-> StateNames[k]]
    /\ pack_shaders = <<>>
    /\ omitted_states = {}

\* load_shaderpack compiles the next state: the pass gets the program of the
\* state or of its fallback; with the chain exhausted the state is reported
\* and left out, and the load goes on.
CompileState ==
    /\ loader_pc = "compiling"
    /\ compile_queue # <<>>
    /\ LET name == Head(compile_queue)
           from == working_shaders(pack_states, name, {})
       IN  IF from = None
           THEN /\ omitted_states' = omitted_states \cup {name}
                /\ UNCHANGED pack_shaders
           ELSE /\ pack_shaders' = [p \in DOMAIN pack_shaders \cup {name} |->
                                       IF p = name THEN from ELSE pack_shaders[p]]
                /\ UNCHANGED omitted_states
    /\ compile_queue' = Tail(compile_queue)
    /\ UNCHANGED << loader_pc, pack_states, passes_vars, parents_vars, lines_vars, vars >>

\* The pack the load returns: the passes that got shaders, keyed by name.
compiled_shaderpack(name, shaders) ==
    [name |-> name, generation |-> 1,
     shaders |-> [p \in DOMAIN shaders |-> [name |-> p, source |-> shaders[p]]],
     passes |-> <<>>]

InstallShaderpack_needs_every_state ==
    /\ loader_pc = "compiling"
    /\ compile_queue = <<>>
    /\ omitted_states = {}
    /\ loaded_shaderpack' = compiled_shaderpack(render_settings.loadedShaderpack,
                                                pack_shaders)
    /\ loader_pc' = "installed"
    /\ UNCHANGED << load_vars, passes_vars, parents_vars, lines_vars, pc, notify_vars,
                    config_vars,
                    main_framebuffer, shadow_framebuffer, main_framebuffer_builder,
                    shadow_framebuffer_builder, generation, gpu_vars, draw_vars,
                    cache_vars, frame_log, pass_vars >>

\* loaded_shaderpack = std::make_shared<shaderpack>(load_shaderpack(name)):
\* whatever load_shaderpack returns is installed.
InstallShaderpack ==
    /\ loader_pc = "compiling"
    /\ compile_queue = <<>>
    /\ loaded_shaderpack' = compiled_shaderpack(render_settings.loadedShaderpack,
                                                pack_shaders)
    /\ loader_pc' = "installed"
    /\ UNCHANGED << load_vars, passes_vars, parents_vars, lines_vars, pc, notify_vars,
                    config_vars,
                    main_framebuffer, shadow_framebuffer, main_framebuffer_builder,
                    shadow_framebuffer_builder, generation, gpu_vars, draw_vars,
                    cache_vars, frame_log, pass_vars >>

LoadNext ==
    \/ CompileState
    \/ InstallShaderpack

LoadSpec == LoadInit /\ [][LoadNext]_all_vars

----------------------------------------------------------------------------
(* The shader program: compilation errors *)

MaxLines == 3      \* lines of one shader as sent to the compiler, and of a file

\* Files a shader's source is put together from.
ShaderFiles == {"gbuffers_terrain.fsh", "common.glsl"}

\* shader_line: a line of the text sent to the driver with the file it came
\* from and its line number there.
shader_line(shader_name, line_num) == [shader_name |-> shader_name, line_num |-> line_num]

\* The driver's message for an error at that line of the text it was given.
glGetShaderInfoLog(line, text) == << "0", "(", line, ")", ":", text >>

\* The line number the driver's message names.
reported_line(error_message) == error_message[3]

get_original_line_message_keeps_line(error_message, lines) ==
    LET original == lines[reported_line(error_message)]
    IN  << original.shader_name, "(", reported_line(error_message), ")", ":",
           error_message[6] >>

\* compilation_error::get_original_line_message: the driver's message with
\* its line number replaced by the file and line the line came from.
get_original_line_message(error_message, lines) ==
    LET original == lines[reported_line(error_message)]
    IN  << original.shader_name, "(", original.line_num, ")", ":", error_message[6] >>

LinesInit ==
    /\ RendererUnbuilt
    /\ NoPasses
    /\ NoParents
    /\ NoLoad
    /\ loader_pc = "compile_failed"
    \* a shader of up to MaxLines lines, each from any line of any file, and an
    \* error the driver reports at one of them
    /\ \E n \in 1..MaxLines :
           \E file \in [1..n -> ShaderFiles], line \in [1..n -> 1..MaxLines],
              error_line \in 1..n :
               /\ source_lines = [k \in 1..n |-> shader_line(file[k], line[k])]
               /\ driver_message = glGetShaderInfoLog(error_line, "error")
    /\ thrown_message = <<>>

\* check_for_shader_errors throws compilation_error(error_message, line_map).
ThrowCompilationError ==
    /\ loader_pc = "compile_failed"
    /\ thrown_message' = get_original_line_message(driver_message, source_lines)
    /\ loader_pc' = "thrown"
    /\ UNCHANGED << source_lines, driver_message, passes_vars, parents_vars, load_vars,
                    vars >>

LinesNext == ThrowCompilationError

LinesSpec == LinesInit /\ [][LinesNext]_all_vars

----------------------------------------------------------------------------
(* Properties *)

Count(log, s) == Cardinality({ i \in DOMAIN log : log[i] = s })

Last(log) == log[Len(log)]

\* A render_frame call has begun and has not yet made its end_frame.
FrameOpen == frame_log # <<>> /\ Last(frame_log) # "end_frame"

\* The notification under way has been handled by every listener.
NotificationHandled == pc = "notify" /\ notify_idx > Len(listeners)

\* The notification under way found no pack, or another name than the loaded one.
NameIsNew == name_before = None \/ name_before # render_settings.loadedShaderpack

Draws(trace) == SelectSeq(trace, LAMBDA e : e.op = "draw")

FrameOrder ==
    << "upload_new_geometry", "render_shadow_pass", "glClear", "update_gbuffer_ubos",
       "render_gbuffers", "render_composite_passes", "render_final_pass",
       "render_gui", "end_frame" >>

\* C1: the statements a render_frame call has made are always an initial
\* part of: upload_new_geometry, shadow pass, clear, send_data, gbuffer passes,
\* composite passes, final pass, GUI pass, end_frame (each once, none skipped);
\* the call returns only with all nine made; a draw call is made only in the
\* gbuffer and GUI steps, hence after upload_new_geometry and send_data.
C1_FrameSequence ==
    /\ IsPrefix(frame_log, FrameOrder)
    /\ (pc = "idle" /\ frame_log # <<>>) => frame_log = FrameOrder
    /\ Draws(pass_trace) # <<>> =>
          /\ Last(frame_log) \in {"render_gbuffers", "render_gui"}
          /\ {"upload_new_geometry", "update_gbuffer_ubos"} \subseteq Range(frame_log)

\* A render_frame call has returned with all nine steps made.
C1_Witness == pc = "idle" /\ frame_log = FrameOrder

ReactionOrder ==
    << "load_shaderpack", "link_up_uniform_buffers", "main_framebuffer",
       "shadow_framebuffer" >>

ProgramNames(pack) == { pack.shaders[p].gl_name : p \in DOMAIN pack.shaders }

\* C2: when on_config_change finds no pack or another name, it loads the
\* pack, then wires the uniform buffers, then builds the main and the shadow
\* framebuffer from the current settings: the wiring starts with the
\* configured pack loaded, the framebuffers are built with all its programs
\* wired, and the handler returns with all four steps made.
C2_ReactionOrder ==
    /\ IsPrefix(reaction_log, ReactionOrder)
    /\ (NotificationHandled /\ NameIsNew) => reaction_log = ReactionOrder
    /\ pc = "link_up_uniform_buffers" =>
          /\ loaded_shaderpack.name = render_settings.loadedShaderpack
          /\ loaded_shaderpack.generation = generation
          /\ ProgramNames(loaded_shaderpack) \cap gl_wired = {}
    /\ "main_framebuffer" \in Range(reaction_log) =>
          /\ ProgramNames(loaded_shaderpack) \subseteq gl_wired
          /\ main_framebuffer.built_for = loaded_shaderpack.generation
          /\ main_framebuffer.width = render_settings.settings.viewWidth
          /\ main_framebuffer.height = render_settings.settings.viewHeight
    /\ "shadow_framebuffer" \in Range(reaction_log) =>
          /\ shadow_framebuffer.built_for = loaded_shaderpack.generation
          /\ shadow_framebuffer.width = render_settings.settings.shadowMapResolution
          /\ shadow_framebuffer.height = render_settings.settings.shadowMapResolution

\* The constructor's notification, with no pack loaded, has made all four steps.
C2_Witness ==
    NotificationHandled /\ name_before = None /\ reaction_log = ReactionOrder

\* C3: a notification makes each of load, rewiring, main framebuffer build
\* and shadow framebuffer build at most once; when every listener has handled
\* it, each was made exactly once if the name was new and not at all if not,
\* and the packs loaded and GPU programs created so far match the loads made.
C3_OneOfEachPerNotification ==
    /\ \A s \in Range(ReactionOrder) : Count(reaction_log, s) <= 1
    /\ NotificationHandled =>
          IF NameIsNew
          THEN \A s \in Range(ReactionOrder) : Count(reaction_log, s) = 1
          ELSE reaction_log = <<>>
    /\ loaded_shaderpack.generation = generation
    /\ gl_next_name = 1 + generation * Len(loaded_shaderpack.passes)

\* A notification that replaced a loaded pack by another has been handled.
C3_Witness ==
    /\ NotificationHandled
    /\ name_before \in PackNames
    /\ name_before # render_settings.loadedShaderpack
    /\ reaction_log = ReactionOrder

\* C4: on_config_change with the configured name equal to the loaded pack's
\* name changes neither the pack, nor the wiring, nor the GPU programs, nor
\* either framebuffer or builder, makes no step of load_new_shaderpack and
\* returns to the settings object.
C4_EqualNameNoOp ==
    [][ ( /\ pc = "on_config_change"
          /\ loaded_shaderpack.name # None
          /\ render_settings.loadedShaderpack = loaded_shaderpack.name )
        => ( /\ pc' = "notify"
             /\ reaction_log' = <<>>
             /\ UNCHANGED << pipeline_vars, gpu_vars >> ) ]_vars

\* A notification carrying the loaded name has been handled.
C4_Witness ==
    /\ NotificationHandled
    /\ name_before \in PackNames
    /\ name_before = render_settings.loadedShaderpack
    /\ reaction_log = <<>>

\* The first load_new_shaderpack has run to its end.
FirstLoadDone == shadow_framebuffer.built_for >= 1

\* C5: once the first load has completed, the orchestrator always holds a
\* shaderpack together with the main and shadow framebuffers built for it:
\* the old pack and framebuffers go only when all replacements are ready.
C5_AlwaysCompletePipeline ==
    FirstLoadDone =>
        /\ loaded_shaderpack.name # None
        /\ main_framebuffer.built_for = loaded_shaderpack.generation
        /\ shadow_framebuffer.built_for = loaded_shaderpack.generation

\* C6: no step of load_new_shaderpack, and no change of the pack, the wiring
\* or a framebuffer, happens while a render_frame call is open.
C6_ReplaceOnlyBetweenFrames ==
    [][ ( \/ reaction_log' # reaction_log /\ reaction_log' # <<>>
          \/ loaded_shaderpack'.generation # loaded_shaderpack.generation
          \/ gl_wired' # gl_wired
          \/ main_framebuffer' # main_framebuffer
          \/ shadow_framebuffer' # shadow_framebuffer )
        => ~FrameOpen ]_vars

\* A pack was replaced after a complete frame had been rendered.
C6_Witness ==
    /\ reaction_log = ReactionOrder
    /\ name_before \in PackNames
    /\ frame_log = FrameOrder

\* C7: whenever render_frame has bound a program of the active pack, that
\* program's GPU name has not been given to glDeleteProgram.
C7_BoundProgramNotReleased ==
    pass_shader # None =>
        /\ gl_program = loaded_shaderpack.shaders[pass_shader].gl_name
        /\ gl_deleted[gl_program] = 0

\* The packs replaced so far.
ReplacedNames == 1 .. (gl_next_name - 1 - Len(loaded_shaderpack.passes))

\* C8: no GPU program name is released twice, and the names of the replaced
\* packs' programs have been released exactly once.
C8_ReleasedExactlyOnce ==
    /\ \A n \in DOMAIN gl_deleted : gl_deleted[n] <= 1
    /\ loaded_shaderpack.name # None =>
          \A n \in ReplacedNames : gl_deleted[n] = 1

UniformUploads(trace) == SelectSeq(trace, LAMBDA e : e.op = "glUniformMatrix4fv")

\* C9: for every program of the loaded pack, the native lookups made equal
\* the number of names cached (one per distinct name), every location
\* get_uniform_location has handed back for "gbufferModel" is the cached one,
\* and so is the location of every upload of the current pass.
C9_OneNativeLookupPerName ==
    loaded_shaderpack.name # None =>
        \A p \in Range(PassNames) :
            LET cache == loaded_shaderpack.shaders[p].uniform_locations
            IN  /\ native_lookups[p] = Cardinality(DOMAIN cache)
                /\ returned_locations[p] # {} => "gbufferModel" \in DOMAIN cache
                /\ "gbufferModel" \in DOMAIN cache =>
                      /\ returned_locations[p] = { cache["gbufferModel"] }
                      /\ p = pass_shader =>
                            \A i \in DOMAIN UniformUploads(pass_trace) :
                                UniformUploads(pass_trace)[i].location = cache["gbufferModel"]

\* A pass has uploaded two model matrices to a program after one native lookup.
C9_Witness ==
    /\ pass_shader \in {"gbuffers_terrain", "gbuffers_water"}
    /\ Len(UniformUploads(pass_trace)) >= 2
    /\ native_lookups[pass_shader] = 1

HasData(geom) == geom.has_data

\* C10: in a render_shader pass, the GL calls made and the texture bindings
\* left are those of the same pass over the bucket without its data-less
\* renderables, and the draw calls are those of the renderables with data, in
\* bucket order.
C10_DatalessRenderablesSkipped ==
    pc = "process_all" =>
        LET kept == SelectSeq(pass_geometry, HasData)
            expected == render_shader(pass_start.program, pass_start.textures, kept,
                                      gl_deleted)
        IN  /\ pass_trace = expected.trace
            /\ gl_textures = expected.textures
            /\ [i \in DOMAIN Draws(pass_trace) |-> Draws(pass_trace)[i].geom] = kept

\* A bucket held a data-less renderable naming a texture, then one with data.
C10_Witness ==
    /\ pc = "process_all"
    /\ Len(pass_geometry) = 2
    /\ ~pass_geometry[1].has_data /\ pass_geometry[1].color_texture # ""
    /\ pass_geometry[2].has_data
    /\ Len(Draws(pass_trace)) = 1

\* The gbuffer-stage passes a pack contains.
GbufferPassesOf(pack) ==
    { pack.passes[i].name : i \in DOMAIN pack.passes } \cap GbufferPassNames

PassIndexOf(pack, name) ==
    pack.passes[CHOOSE i \in DOMAIN pack.passes : pack.passes[i].name = name].pass_index

\* The gbuffer step of the frame under way has returned.
GbufferStepDone == pc = "render_composite_passes"

\* C11: when the gbuffer step of a frame has returned, the programs it bound
\* and rendered are the gbuffer-stage passes of the loaded pack, each exactly
\* once, in non-decreasing pass_index order, whichever pack is loaded.
C11_EveryGbufferPassOnce ==
    GbufferStepDone =>
        /\ Range(bound_passes) = GbufferPassesOf(loaded_shaderpack)
        /\ \A i, j \in DOMAIN bound_passes :
              i < j => /\ bound_passes[i] # bound_passes[j]
                       /\ PassIndexOf(loaded_shaderpack, bound_passes[i])
                             <= PassIndexOf(loaded_shaderpack, bound_passes[j])

\* C12: the key a pass gives the mesh store is the filter of the program it
\* has bound, also when that filter is not the program's name.
C12_KeyIsProgramFilter ==
    pass_shader # None => pass_key = loaded_shaderpack.shaders[pass_shader].filter

\* The last draw call, or else the binding of the program, before call i.
PreviousDraw(trace, i) ==
    LET earlier == { j \in 1 .. (i - 1) : trace[j].op \in {"draw", "glUseProgram"} }
    IN  CHOOSE j \in earlier : \A k \in earlier : k <= j

\* The texture binds a renderable's own textures ask for, in unit order.
OwnTextureBinds(geom) ==
    (IF geom.color_texture # ""
     THEN << [op |-> "bind_texture", unit |-> 0, name |-> geom.color_texture] >>
     ELSE << >>)
    \o (IF geom.normalmap # None
        THEN << [op |-> "bind_texture", unit |-> 1, name |-> geom.normalmap] >>
        ELSE << >>)
    \o (IF geom.data_texture # None
        THEN << [op |-> "bind_texture", unit |-> 2, name |-> geom.data_texture] >>
        ELSE << >>)

\* Call i of the trace is a draw made after, in this order and with nothing
\* else since the draw before it: the renderable's colour, normal and data
\* textures bound at 0, 1 and 2, "lightmap" bound at 3, one matrix upload.
PreparedDraw(trace, i) ==
    LET geom == trace[i].geom
    IN  /\ geom.has_data
        /\ i >= 4
        /\ trace[i - 1].op = "glUniformMatrix4fv"
        /\ trace[i - 2] = [op |-> "bind_texture", unit |-> 3, name |-> "lightmap"]
        /\ SubSeq(trace, PreviousDraw(trace, i) + 1, i - 3) = OwnTextureBinds(geom)
        /\ trace[i].textures[3] = "lightmap"
        /\ geom.color_texture # "" => trace[i].textures[0] = geom.color_texture
        /\ geom.normalmap # None => trace[i].textures[1] = geom.normalmap
        /\ geom.data_texture # None => trace[i].textures[2] = geom.data_texture

\* C13: in a gbuffer pass the first GL call binds the pass's program, no
\* other program is bound during the pass, and every draw call is that of a
\* renderable with data, made only after the textures the renderable names
\* were bound at binding points 0 (colour), 1 (normal) and 2 (data), then
\* "lightmap" at 3, then the model matrix uploaded, in this order.
C13_DrawAfterBindsAndUpload ==
    pass_shader \in GbufferPassNames =>
        /\ pass_trace[1] = [op |-> "glUseProgram",
                            gl_name |-> loaded_shaderpack.shaders[pass_shader].gl_name]
        /\ gl_program = loaded_shaderpack.shaders[pass_shader].gl_name
        /\ \A i \in DOMAIN pass_trace :
              /\ pass_trace[i].op = "glUseProgram" => i = 1
              /\ pass_trace[i].op = "draw" => PreparedDraw(pass_trace, i)

\* A pass has drawn a renderable naming all three textures, then one naming
\* none of them.
C13_Witness ==
    /\ pass_shader \in GbufferPassNames
    /\ Len(Draws(pass_trace)) = 2
    /\ Draws(pass_trace)[1].geom.color_texture # ""
    /\ Draws(pass_trace)[1].geom.normalmap # None
    /\ Draws(pass_trace)[2].geom.color_texture = ""
    /\ Draws(pass_trace)[2].geom.normalmap = None

\* C14: the frame clears colour once, in its main clear; no pass clears
\* anything but depth.  The GUI pass comes after the main clear, and its GL
\* calls are, in order: the depth clear, the binding of the pack's "gui"
\* program, the upload of the viewport transform, and only then the colour
\* texture binds and draw calls of the geometry kept under "gui", one draw
\* per renderable in bucket order.
C14_GuiPassOrder ==
    /\ Count(frame_log, "glClear") <= 1
    /\ \A i \in DOMAIN pass_trace :
          pass_trace[i].op = "glClear" => pass_trace[i].bits = {"depth"}
    /\ pass_shader = "gui" =>
          /\ "glClear" \in Range(frame_log)
          /\ Len(pass_trace) >= 3
          /\ pass_trace[1] = [op |-> "glClear", bits |-> {"depth"}]
          /\ pass_trace[2] = [op |-> "glUseProgram",
                              gl_name |-> loaded_shaderpack.shaders["gui"].gl_name]
          /\ pass_trace[3].op = "glUniformMatrix4fv"
          /\ \A i \in DOMAIN pass_trace :
                i > 3 => pass_trace[i].op \in {"bind_texture", "draw", "throw"}
          /\ pass_key = "gui"
          /\ pc # "failed" =>
                [i \in DOMAIN Draws(pass_trace) |-> Draws(pass_trace)[i].geom] = pass_geometry

\* The GUI pass has drawn two renderables.
C14_Witness ==
    /\ pass_shader = "gui"
    /\ Len(pass_geometry) = 2
    /\ Len(Draws(pass_trace)) = 2

\* The frame under way was left by an exception.
FrameFailed == pc = "failed"

\* The texture whose lookup failed.
MissingTexture == Last(pass_trace).name

\* A missing lightmap stops the pass before the draw call that would use it.
LightmapFailsBeforeDraw ==
    pass_shader \in GbufferPassNames =>
        /\ Draws(pass_trace) # << >> => "lightmap" \in texture_manager
        /\ ( /\ "lightmap" \notin texture_manager
             /\ pass_geometry # << >>
             /\ Last(pass_geometry).has_data ) => FrameFailed

\* C16: a frame is left by an exception only for a missing mandatory
\* texture, never for a renderable's missing normal map or data texture
\* (the renderable's remaining steps and the following renderables run), and
\* with the lightmap missing a gbuffer pass fails before it draws anything
\* with data.
C16_OnlyMandatoryTextureAborts ==
    /\ FrameFailed =>
          MissingTexture \notin { Last(pass_geometry).normalmap,
                                  Last(pass_geometry).data_texture }
    /\ LightmapFailsBeforeDraw

\* C17: whenever the renderer is idle between two calls of the host, the
\* main framebuffer has the configured view width and height and the shadow
\* framebuffer is the configured shadow-map resolution squared, whatever
\* change notifications came before.
C17_FramebuffersMatchSettings ==
    pc = "idle" =>
        /\ main_framebuffer.width = render_settings.settings.viewWidth
        /\ main_framebuffer.height = render_settings.settings.viewHeight
        /\ shadow_framebuffer.width = render_settings.settings.shadowMapResolution
        /\ shadow_framebuffer.height = render_settings.settings.shadowMapResolution

\* The framebuffer is the one `builder` builds now: its attachments are
\* exactly `attachments`, its size the last one the builder was given.
BuiltBy(framebuffer, builder, attachments) ==
    /\ framebuffer.attachments = attachments
    /\ framebuffer.width = builder.width
    /\ framebuffer.height = builder.height
    /\ \A index \in attachments :
          enable_color_attachment(builder, index) = builder

\* C18: after every step, and so after any number of reloads feeding the
\* same two builders the same enable calls again, a main framebuffer that
\* exists has exactly the attachments 0..7 and a shadow framebuffer exactly
\* 0..3, each of the size last given to its builder, enabling an attachment
\* again changes nothing, and a framebuffer changes only by being replaced
\* by the one built for a later load.
C18_BuilderReuse ==
    [][ /\ main_framebuffer'.built_for >= 1 =>
              BuiltBy(main_framebuffer', main_framebuffer_builder', 0 .. 7)
        /\ shadow_framebuffer'.built_for >= 1 =>
              BuiltBy(shadow_framebuffer', shadow_framebuffer_builder', 0 .. 3)
        /\ main_framebuffer'.built_for = main_framebuffer.built_for =>
              main_framebuffer' = main_framebuffer
        /\ shadow_framebuffer'.built_for = shadow_framebuffer.built_for =>
              shadow_framebuffer' = shadow_framebuffer ]_vars

\* Both framebuffers have been rebuilt by a reload, from the builders the
\* first load had already fed.
C18_Witness ==
    /\ NotificationHandled
    /\ generation >= 2
    /\ main_framebuffer.built_for = generation
    /\ shadow_framebuffer.built_for = generation
    /\ main_framebuffer.attachments = 0 .. 7
    /\ shadow_framebuffer.attachments = 0 .. 3

\* load_new_shaderpack has run to its end for the pack now loaded.
LoadComplete ==
    /\ loaded_shaderpack.name # None
    /\ shadow_framebuffer.built_for = loaded_shaderpack.generation

\* The registrations made for the GPU program of that name since the load.
RegistrationsOf(gl_name) ==
    { i \in DOMAIN ubo_registrations : ubo_registrations[i].gl_name = gl_name }

\* Each program of the loaded pack has one registration since the load, and
\* no other program has any.
RegisteredOncePerProgram ==
    (LoadComplete \/ InFrame) =>
        /\ \A p \in DOMAIN loaded_shaderpack.shaders :
              Cardinality(RegistrationsOf(loaded_shaderpack.shaders[p].gl_name)) = 1
        /\ \A i \in DOMAIN ubo_registrations :
              ubo_registrations[i].gl_name \in ProgramNames(loaded_shaderpack)

\* C19: once load_new_shaderpack has completed, and in every frame, each
\* program of the loaded pack has been registered with the uniform buffer
\* store exactly once since the load and no other program has, and what was
\* registered is the program object the pack stores, whose GPU program is
\* still there to be bound.
C19_StoredProgramsRegisteredOnce ==
    /\ RegisteredOncePerProgram
    /\ (LoadComplete \/ InFrame) =>
          \A i \in DOMAIN ubo_registrations :
              /\ ubo_registrations[i].object = "map entry"
              /\ gl_deleted[ubo_registrations[i].gl_name] = 0

\* What tells one shaderpack from another: its name, the load that made it,
\* its passes and, per pass name, the program's GPU name, name and filter.
\* The programs' caches of uniform locations are left out.
PackIdentity(pack) ==
    [name |-> pack.name, generation |-> pack.generation, passes |-> pack.passes,
     programs |-> [p \in DOMAIN pack.shaders |->
                     [gl_name |-> pack.shaders[p].gl_name,
                      name |-> pack.shaders[p].name,
                      filter |-> pack.shaders[p].filter]]]

PipelineIdentity ==
    << PackIdentity(loaded_shaderpack), main_framebuffer, shadow_framebuffer >>

\* C20: no step taken between the start of a render_frame call and its
\* end_frame changes the identity of the loaded shaderpack, its pass names
\* and programs, or either framebuffer; a step that changes one of them is a
\* statement of load_new_shaderpack.
C20_FrameLeavesPipelineAlone ==
    [][ /\ (FrameOpen \/ FrameOpen') => PipelineIdentity' = PipelineIdentity
        /\ PipelineIdentity' # PipelineIdentity =>
              pc \in Range(load_new_shaderpack_steps) ]_vars

\* A whole frame has been rendered, in which programs of the pack cached a
\* uniform location.
C20_Witness ==
    /\ pc = "idle"
    /\ frame_log = FrameOrder
    /\ \E p \in DOMAIN loaded_shaderpack.shaders :
          loaded_shaderpack.shaders[p].uniform_locations # EmptyLocations

\* The order the constructor registers the listeners in.
RegistrationOrder == << "ubo_manager", "game_window", "nova_renderer" >>

\* What the listeners are handed, in order, by the notifications under way:
\* in the constructor the initial load, then the change; later a change.
ExpectedDeliveries ==
    (IF in_constructor THEN deliver_all(<<>>, "config_loaded", RegistrationOrder) ELSE <<>>)
        \o deliver_all(<<>>, "config_change", RegistrationOrder)

\* C26: the listeners are the uniform buffer store, the window and the
\* renderer, in that order; each notification is handed to them in that
\* order before anything else runs, the initial load to all three before the
\* first change to any; the renderer reacts to a change only after the
\* uniform buffer store and the window have handled it.
C26_ListenersInRegistrationOrder ==
    /\ pc # "constructor" => listeners = RegistrationOrder
    /\ IsPrefix(delivered, ExpectedDeliveries)
    /\ InReaction =>
          /\ Last(delivered) = [notification |-> "config_change", listener |-> "nova_renderer"]
          /\ \A l \in {"ubo_manager", "game_window"} :
                 \E i \in 1..(Len(delivered) - 1) :
                     delivered[i] = [notification |-> "config_change", listener |-> l]
    /\ InFrame \/ pc = "idle" => delivered = <<>>

\* The renderer reacting to the constructor's change notification, after all
\* six deliveries.
C26_Witness ==
    /\ pc = "on_config_change"
    /\ in_constructor
    /\ Len(delivered) = 6
    /\ delivered[3] = [notification |-> "config_loaded", listener |-> "nova_renderer"]
    /\ delivered[4] = [notification |-> "config_change", listener |-> "ubo_manager"]

\* The constructor has returned and no notification is being delivered: the
\* host is between two calls, or inside render_frame.
NoReactionInProgress == pc = "idle" \/ InFrame \/ pc = "failed"

\* C27: once the constructor has returned and outside the delivery of a
\* notification, a shaderpack is loaded and its name is the one the latest
\* change notification carried.
C27_LoadedNameIsConfiguredName ==
    NoReactionInProgress =>
        /\ loaded_shaderpack.name # None
        /\ loaded_shaderpack.name = render_settings.loadedShaderpack

\* Between frames after a change notification that replaced the first pack
\* by one of another name.
C27_Witness ==
    /\ pc = "idle"
    /\ generation = 2
    /\ loaded_shaderpack.generation = 2
    /\ loaded_shaderpack.name = render_settings.loadedShaderpack

\* The texture binds of a pass, in order.
TextureBinds(trace) == SelectSeq(trace, LAMBDA e : e.op = "bind_texture")

NamesColor(geom) == geom.color_texture # ""

\* What is bound at the binding point when the GUI pass makes its i-th draw
\* call without having bound anything for it.
LeftBound(unit, i) ==
    IF i = 1 THEN pass_start.textures[unit] ELSE Draws(pass_trace)[i - 1].textures[unit]

\* C28: while no texture lookup has thrown, the GUI pass has drawn every
\* renderable of the "gui" bucket it has reached once, in bucket order, with
\* or without uploaded data; it binds a texture, at
\* binding point 0, exactly for the renderables that name a colour texture,
\* and a renderable that names none is drawn with what was bound at point 0
\* before.
C28_GuiDrawsEveryRenderable ==
    pc = "process_gui" =>
        LET draws == Draws(pass_trace)
            named == SelectSeq(pass_geometry, NamesColor)
        IN  /\ pass_key = "gui"
            /\ Len(draws) = Len(pass_geometry)
            /\ \A i \in DOMAIN draws :
                   /\ draws[i].geom = pass_geometry[i]
                   /\ draws[i].textures[0] =
                          IF NamesColor(pass_geometry[i])
                          THEN pass_geometry[i].color_texture ELSE LeftBound(0, i)
                   /\ \A unit \in 1..3 : draws[i].textures[unit] = pass_start.textures[unit]
            /\ TextureBinds(pass_trace) =
                   [i \in DOMAIN named |->
                       [op |-> "bind_texture", unit |-> 0, name |-> named[i].color_texture]]

\* A renderable without uploaded data and without colour texture name, drawn
\* by the GUI pass with the texture an earlier renderable left at point 0.
C28_Witness ==
    /\ pc = "process_gui"
    /\ \E i \in DOMAIN pass_geometry :
           /\ ~pass_geometry[i].has_data
           /\ ~NamesColor(pass_geometry[i])
           /\ i \in DOMAIN Draws(pass_trace)
           /\ Draws(pass_trace)[i].geom = pass_geometry[i]
           /\ Draws(pass_trace)[i].textures[0] # None

----------------------------------------------------------------------------
(* Properties of the material loader *)

\* Place of the state of that name in the discovery order.
DiscoveryRank(name) == CHOOSE k \in DOMAIN discovered_passes : discovered_passes[k].name = name

PassesExposed == loader_pc = "exposed"

NonDecreasing(passes) ==
    \A i, j \in DOMAIN passes : i < j => passes[i].pass_index <= passes[j].pass_index

TiesKeepDiscoveryOrder(passes) ==
    \A i, j \in DOMAIN passes :
        i < j /\ passes[i].pass_index = passes[j].pass_index
            => DiscoveryRank(passes[i].name) < DiscoveryRank(passes[j].name)

RECURSIVE Ancestor(_, _)
Ancestor(name, n) ==
    IF n = 0 \/ name = NoParent THEN name
    ELSE Ancestor(material_states[name].parent, n - 1)

NumStates == Cardinality(DOMAIN material_states)

\* The parent chain of the state ends, and so holds no cycle.
AcyclicChain(name) == Ancestor(name, NumStates) = NoParent

\* The state is on a cycle of n states.
OnCycleOf(name, n) == Ancestor(name, n) = name

OnCycle(name) == \E n \in 1..NumStates : OnCycleOf(name, n)

\* The value of the field at the nearest state of the chain that sets it.
RECURSIVE NearestSet(_, _)
NearestSet(name, f) ==
    IF name = NoParent THEN Unset
    ELSE IF material_states[name].fields[f] # Unset THEN material_states[name].fields[f]
    ELSE NearestSet(material_states[name].parent, f)

ResolutionDone == loader_pc = "resolved"

\* C22: every state with an acyclic parent chain is resolved, whatever the
\* order the states are taken in, and then each field it sets has its own
\* value and each field it leaves unset has the value of the nearest
\* ancestor that sets it.
C22_FieldsFromNearestAncestor ==
    \A s \in DOMAIN material_states :
        AcyclicChain(s) =>
            /\ ResolutionDone => s \in DOMAIN resolved_states
            /\ s \in DOMAIN resolved_states =>
                   \A f \in InheritedFields :
                       /\ resolved_states[s].fields[f] = NearestSet(s, f)
                       /\ material_states[s].fields[f] # Unset =>
                              resolved_states[s].fields[f] = s

\* A chain of three states: the child sets "filters" itself and takes
\* "textures" from its grandparent, over a parent that sets neither.
C22_Witness ==
    /\ ResolutionDone
    /\ \E s \in DOMAIN resolved_states :
           LET p == material_states[s].parent
           IN  /\ p \notin {NoParent, s}
               /\ material_states[p].parent \notin {NoParent, s, p}
               /\ AcyclicChain(s)
               /\ material_states[p].fields = [f \in InheritedFields |-> Unset]
               /\ material_states[material_states[p].parent].fields["filters"] # Unset
               /\ resolved_states[s].fields["filters"] = s
               /\ resolved_states[s].fields["textures"] = material_states[p].parent

\* Resolution never makes more than two steps per state and is never stuck
\* before it is done.
ResolutionTerminates ==
    /\ resolve_steps <= 2 * NumStates
    /\ loader_pc = "resolving" => ENABLED ParentsNext

CycleStatesRejected ==
    ResolutionDone =>
        \A s \in DOMAIN material_states :
            (\E n \in 2..NumStates : OnCycleOf(s, n)) =>
                s \in rejected_states /\ s \notin DOMAIN resolved_states

RECURSIVE FallbackOf(_, _)
FallbackOf(name, n) ==
    IF n = 0 \/ name = NoFallback THEN name
    ELSE FallbackOf(pack_states[name].fallback, n - 1)

Compiles(name) == name # NoFallback /\ pack_states[name].outcome = "ok"

\* No state along the fallback chain of the state compiles.
FallbackExhausted(name) ==
    \A n \in 1..Cardinality(DOMAIN pack_states) : ~Compiles(FallbackOf(name, n))

LoadReturned == loader_pc = "installed"

\* C24: the load goes on to its end whatever the states do; a state that
\* fails with its fallback chain exhausted is reported and left out, every
\* state that compiles is in the pack under its own name with its own
\* shaders, and the pack the load returns is installed.
C24_FailingStateOmitted ==
    /\ loader_pc = "compiling" => ENABLED LoadNext
    /\ LoadReturned =>
          /\ loaded_shaderpack.name = render_settings.loadedShaderpack
          /\ DOMAIN loaded_shaderpack.shaders = DOMAIN pack_states \ omitted_states
          /\ \A s \in DOMAIN pack_states :
                 /\ ~Compiles(s) /\ FallbackExhausted(s) => s \in omitted_states
                 /\ Compiles(s) =>
                        /\ s \notin omitted_states
                        /\ loaded_shaderpack.shaders[s] = [name |-> s, source |-> s]

\* A pack installed with one state left out after its fallback failed too,
\* next to one that compiles.
C24_Witness ==
    /\ LoadReturned
    /\ \E s \in omitted_states :
           /\ pack_states[s].outcome = "compilation_error"
           /\ pack_states[s].fallback # NoFallback
    /\ \E s \in DOMAIN loaded_shaderpack.shaders : Compiles(s)

ErrorThrown == loader_pc = "thrown"

\* C25: the message of a compilation_error cites the file and the line of the
\* entry of the provenance sequence at the line the driver reported.
C25_ErrorCitesOriginalLine ==
    ErrorThrown =>
        \E n \in DOMAIN source_lines :
            /\ driver_message[3] = n
            /\ thrown_message[1] = source_lines[n].shader_name
            /\ thrown_message[3] = source_lines[n].line_num

\* An error at the last of three lines, which is line 1 of common.glsl after
\* two lines of another file.
C25_Witness ==
    /\ ErrorThrown
    /\ Len(source_lines) = 3
    /\ driver_message[3] = 3
    /\ source_lines[1].shader_name # "common.glsl"
    /\ source_lines[2].line_num = 2
    /\ thrown_message[1] = "common.glsl"
    /\ thrown_message[3] = 1

====
